---- MODULE Spec2Model ----
(***************************************************************************)
(* State machine of the App component of src/index.tsx: the uploaded video *)
(* list and its object URLs, the music-description request, and the        *)
(* sequential render (handleRenderVideo) with the browser callbacks it     *)
(* waits on.  Every handler runs to its next await as one atomic step, as  *)
(* the JavaScript event loop runs it.                                      *)
(*                                                                         *)
(* Not modelled: progress, masterLoop / tempVideo.currentTime and the      *)
(* pixels drawn on the canvas; no property below reads them.               *)
(***************************************************************************)
EXTENDS Integers, Sequences, FiniteSets, TLC

\* ---------------------------------------------------------------- bounds
MaxVideos == 2        \* files uploaded over the whole run
MaxPick == 2          \* files chosen in one upload event
MaxDeltaMs == 5000    \* largest gap between two performance.now() readings

\* File names matter only through the ids built from them: equal names read
\* at the same Date.now() give equal ids, and a clock tick between two reads
\* gives different ids.
FileNames == {"a.mp4"}

\* ------------------------------------------------------ JavaScript numbers
\* A number is an integer or NaN; every comparison with NaN is false.
NaN == [nan |-> TRUE, v |-> 0]
Num(n) == [nan |-> FALSE, v |-> n]
Mul(a, b) == IF a.nan \/ b.nan THEN NaN ELSE Num(a.v * b.v)
Lt(a, b) == ~a.nan /\ ~b.nan /\ a.v < b.v
Le(a, b) == ~a.nan /\ ~b.nan /\ a.v <= b.v

\* ------------------------------------------------------------ parseInt(s, 10)
\* Strings are sequences of UTF-16 code units (numbers).
\* "0" .. "9" are 48 .. 57, "+" is 43, "-" is 45, "." is 46.
DigitChars == <<48, 49, 50, 51, 52, 53, 54, 55, 56, 57>>
IsDigit(c) == \E d \in 1..10 : DigitChars[d] = c
DigitVal(c) == (CHOOSE d \in 1..10 : DigitChars[d] = c) - 1
\* ECMAScript WhiteSpace and LineTerminator, what trim and parseInt strip:
\* TAB, LF, VT, FF, CR, SPACE, NBSP, U+1680, U+2000..U+200A, U+2028, U+2029,
\* U+202F, U+205F, U+3000, U+FEFF.
IsSpace(c) ==
    c \in {9, 10, 11, 12, 13, 32, 160, 5760, 8232, 8233, 8239, 8287, 12288, 65279}
          \cup (8192..8202)

RECURSIVE SkipSpaces(_, _)
SkipSpaces(s, i) ==
    IF i <= Len(s) /\ IsSpace(s[i]) THEN SkipSpaces(s, i + 1) ELSE i

RECURSIVE ParseDigits(_, _, _)
ParseDigits(s, i, acc) ==
    IF i <= Len(s) /\ IsDigit(s[i])
    THEN ParseDigits(s, i + 1, acc * 10 + DigitVal(s[i]))
    ELSE acc

ParseInt(s) ==
    LET i0 == SkipSpaces(s, 1)
        signed == i0 <= Len(s) /\ s[i0] \in {45, 43}
        neg == signed /\ s[i0] = 45
        i1 == IF signed THEN i0 + 1 ELSE i0
    IN  IF i1 > Len(s) \/ ~IsDigit(s[i1])
        THEN NaN
        ELSE Num((IF neg THEN -1 ELSE 1) * ParseDigits(s, i1, 0))

\* String.prototype.trim
RECURSIVE TrimLeft(_)
TrimLeft(s) == IF s # <<>> /\ IsSpace(Head(s)) THEN TrimLeft(Tail(s)) ELSE s
RECURSIVE TrimRight(_)
TrimRight(s) ==
    IF s # <<>> /\ IsSpace(s[Len(s)]) THEN TrimRight(SubSeq(s, 1, Len(s) - 1)) ELSE s
Trim(s) == TrimRight(TrimLeft(s))

\* -------------------------------------------------------------- inputs
\* Values a number input can hand to the masterDuration onChange.
\* "", "0.5" and "10"
DurationInputs == {<<>>, <<48, 46, 53>>, <<49, 48>>}
\* "Epic cinematic score"
InitialMusicPrompt ==
    <<69, 112, 105, 99, 32, 99, 105, 110, 101, 109, 97, 116, 105, 99,
      32, 115, 99, 111, 114, 101>>
\* "", two spaces, a tab and a no-break space, " lo-fi" followed by a tab, and
\* the initial prompt
PromptInputs == {<<>>, <<32, 32>>, <<9, 160>>, <<32, 108, 111, 45, 102, 105, 9>>, InitialMusicPrompt}
Formats == {"webm", "mp4"}
Deltas == {0, MaxDeltaMs}

\* -------------------------------------------------------------- status
St(kind, arg) == [kind |-> kind, arg |-> arg]
CountStr(n) == CASE n = 1 -> "1" [] n = 2 -> "2" [] n = 3 -> "3" [] OTHER -> "many"
StatusReady == St("Ready. Upload videos to begin.", "")
StatusAdded(n) == St("video(s) added. Adjust master settings and render.", CountStr(n))
StatusRemoved == St("Video removed.", "")
StatusCleared == St("All videos cleared.", "")
StatusInitializing == St("Initializing render...", "")
StatusUnsupported(mime) == St("Error: Your browser does not support recording.", mime)
StatusRendering(name) == St("Rendering: ", name)
StatusComplete == St("Render complete! Your video is ready for download.", "")
StatusRenderError(msg) == St("Error during render: ", msg)
IsErrorStatus(s) ==
    s.kind \in {"Error: Your browser does not support recording.", "Error during render: "}

MusicFailed == "Failed to generate music description. Please try again."
MusicText == "response.text"

MimeType(format) == IF format = "mp4" THEN "video/mp4" ELSE "video/webm"

VARIABLES
    mounted,            \* the component is mounted
    videos,             \* useState<VideoFile[]>: sequence of [id, name, url]
    audioFile,          \* an audio file is selected
    isRendering, status, outputUrl,     \* outputUrl: 0 is null
    musicPrompt, musicDescription, isGeneratingMusic,
    masterDuration, outputFormat,
    urls,               \* object URLs created so far: [kind, revoked (count)]
    heldOutputs,        \* output URLs that have been the value of outputUrl
    now,                \* Date.now()
    musicReq,           \* latest generateContent promise: none/pending/fulfilled/rejected
    render,             \* the latest handleRenderVideo invocation (see NoRender)
    alert               \* window.alert dialog open (blocks the event loop)

vars == <<mounted, videos, audioFile, isRendering, status, outputUrl,
          musicPrompt, musicDescription, isGeneratingMusic, masterDuration,
          outputFormat, urls, heldOutputs, now, musicReq, render, alert>>

uiVars == <<videos, audioFile, isRendering, status, outputUrl, musicPrompt,
            musicDescription, isGeneratingMusic, masterDuration, outputFormat>>

\* ------------------------------------------------------------- helpers
\* A state setter of an unmounted component does nothing.
Set(old, new) == IF mounted THEN new ELSE old

TotalDuration == Mul(Num(Len(videos)), masterDuration)

Revoke(us, u) == [us EXCEPT ![u].revoked = @ + 1]
RECURSIVE RevokeAll(_, _)
RevokeAll(us, list) ==
    IF list = <<>> THEN us ELSE RevokeAll(Revoke(us, Head(list).url), Tail(list))

RECURSIVE Filter(_, _)
Filter(list, id) ==
    IF list = <<>> THEN <<>>
    ELSE IF Head(list).id = id THEN Filter(Tail(list), id)
         ELSE <<Head(list)>> \o Filter(Tail(list), id)

\* Array.prototype.find: position of the first element with this id, 0 if none
RECURSIVE FindFrom(_, _, _)
FindFrom(list, id, k) ==
    IF k > Len(list) THEN 0
    ELSE IF list[k].id = id THEN k ELSE FindFrom(list, id, k + 1)
Find(list, id) == FindFrom(list, id, 1)

VideoUrlCount == Cardinality({u \in DOMAIN urls : urls[u].kind = "video"})

\* a cleanup that revokes nothing
OutputUrlCleanupNone(us, prev) == us

\* useEffect([outputUrl]) cleanup: runs with the previous outputUrl when the
\* value changes.
OutputUrlCleanup(us, prev) == IF prev # 0 THEN Revoke(us, prev) ELSE us
CommitOutputUrl(us, new) ==
    IF mounted /\ new # outputUrl THEN OutputUrlCleanup(us, outputUrl) ELSE us

\* The event loop can run a handler: the page is live and no alert is open.
Idle == alert = "none"
Ui == mounted /\ Idle

\* ------------------------------------------------------- video list
\* Date.now() is read once per file and never runs backwards: ticks[k] says
\* whether the clock moved on to the next millisecond before read k.
RECURSIVE ReadTime(_, _)
ReadTime(ticks, k) == IF k = 0 THEN now ELSE ReadTime(ticks, k - 1) + ticks[k]

\* handleVideoUpload
NewVideos(files, ticks) ==
    [k \in 1..Len(files) |->
        [id |-> <<files[k], ReadTime(ticks, k)>>,
         name |-> files[k],
         url |-> Len(urls) + k]]

HandleVideoUpload ==
    /\ Ui
    /\ \E n \in 0..MaxPick : \E files \in [1..n -> FileNames] :
       \E ticks \in [1..n -> {0, 1}] :
        /\ VideoUrlCount + n <= MaxVideos
        /\ IF n = 0
           THEN UNCHANGED vars
           ELSE /\ urls' = urls \o [k \in 1..n |-> [kind |-> "video", revoked |-> 0]]
                /\ videos' = videos \o NewVideos(files, ticks)
                /\ status' = StatusAdded(n)
                /\ now' = ReadTime(ticks, n)
                /\ UNCHANGED <<mounted, audioFile, isRendering, outputUrl, musicPrompt,
                               musicDescription, isGeneratingMusic, masterDuration,
                               outputFormat, heldOutputs, musicReq, render, alert>>

HandleAudioUpload ==
    /\ Ui
    /\ audioFile' = TRUE
    /\ UNCHANGED <<mounted, videos, isRendering, status, outputUrl, musicPrompt,
                   musicDescription, isGeneratingMusic, masterDuration, outputFormat,
                   urls, heldOutputs, now, musicReq, render, alert>>

\* handleRemoveVideo, for the Remove button of list item k
RemoveRevoke(us, list, id) ==
    LET p == Find(list, id) IN IF p # 0 THEN Revoke(us, list[p].url) ELSE us

HandleRemoveVideo ==
    /\ Ui
    /\ \E k \in 1..Len(videos) :
        LET idToRemove == videos[k].id IN
        /\ urls' = RemoveRevoke(urls, videos, idToRemove)
        /\ videos' = Filter(videos, idToRemove)
    /\ status' = StatusRemoved
    /\ UNCHANGED <<mounted, audioFile, isRendering, outputUrl, musicPrompt,
                   musicDescription, isGeneratingMusic, masterDuration, outputFormat,
                   heldOutputs, now, musicReq, render, alert>>

HandleClearAllVideos ==
    /\ Ui
    /\ Len(videos) > 0
    /\ urls' = RevokeAll(urls, videos)
    /\ videos' = <<>>
    /\ status' = StatusCleared
    /\ UNCHANGED <<mounted, audioFile, isRendering, outputUrl, musicPrompt,
                   musicDescription, isGeneratingMusic, masterDuration, outputFormat,
                   heldOutputs, now, musicReq, render, alert>>

\* Unmount: both effect cleanups run (videosRef.current is the current list).
UnmountCleanup(us) == OutputUrlCleanup(RevokeAll(us, videos), outputUrl)

Unmount ==
    /\ Ui
    /\ mounted' = FALSE
    /\ urls' = UnmountCleanup(urls)
    /\ UNCHANGED <<videos, audioFile, isRendering, status, outputUrl, musicPrompt,
                   musicDescription, isGeneratingMusic, masterDuration, outputFormat,
                   heldOutputs, now, musicReq, render, alert>>

\* ------------------------------------------------------- settings
SetMasterDuration ==
    /\ Ui
    /\ \E s \in DurationInputs : masterDuration' = ParseInt(s)
    /\ UNCHANGED <<mounted, videos, audioFile, isRendering, status, outputUrl,
                   musicPrompt, musicDescription, isGeneratingMusic, outputFormat,
                   urls, heldOutputs, now, musicReq, render, alert>>

SetMusicPrompt ==
    /\ Ui
    /\ \E p \in PromptInputs : musicPrompt' = p
    /\ UNCHANGED <<mounted, videos, audioFile, isRendering, status, outputUrl,
                   musicDescription, isGeneratingMusic, masterDuration, outputFormat,
                   urls, heldOutputs, now, musicReq, render, alert>>

\* The format select is disabled while rendering.
SetOutputFormat ==
    /\ Ui
    /\ ~isRendering
    /\ \E f \in Formats : outputFormat' = f
    /\ UNCHANGED <<mounted, videos, audioFile, isRendering, status, outputUrl,
                   musicPrompt, musicDescription, isGeneratingMusic, masterDuration,
                   urls, heldOutputs, now, musicReq, render, alert>>

DismissAlert ==
    /\ alert # "none"
    /\ alert' = "none"
    /\ UNCHANGED <<mounted, videos, audioFile, isRendering, status, outputUrl,
                   musicPrompt, musicDescription, isGeneratingMusic, masterDuration,
                   outputFormat, urls, heldOutputs, now, musicReq, render>>

\* ------------------------------------------------- music description
\* disabled={isGeneratingMusic || videos.length === 0}
GenerateButtonEnabled == ~isGeneratingMusic /\ Len(videos) # 0

\* the guard without the trim: a prompt of spaces passes
GenerateBlockedNoTrim == musicPrompt = <<>> \/ Le(TotalDuration, Num(0))

\* the guard of handleGenerateMusic: !musicPrompt.trim() || totalDuration <= 0
GenerateBlocked == Trim(musicPrompt) = <<>> \/ Le(TotalDuration, Num(0))

HandleGenerateMusic ==
    /\ Ui
    /\ GenerateButtonEnabled
    /\ IF GenerateBlocked
       THEN /\ alert' = "music"
            /\ UNCHANGED <<isGeneratingMusic, musicDescription, musicReq>>
       ELSE /\ isGeneratingMusic' = TRUE
            /\ musicDescription' = ""
            /\ musicReq' = "pending"
            /\ UNCHANGED alert
    /\ UNCHANGED <<mounted, videos, audioFile, isRendering, status, outputUrl,
                   musicPrompt, masterDuration, outputFormat, urls, heldOutputs,
                   now, render>>

\* the value of isGeneratingMusic after the finally block
GeneratingAfterSettle == FALSE

\* generateContent resolved: setMusicDescription(response.text), then finally
MusicResolved ==
    /\ Idle
    /\ musicReq = "pending"
    /\ musicReq' = "fulfilled"
    /\ musicDescription' = Set(musicDescription, MusicText)
    /\ isGeneratingMusic' = Set(isGeneratingMusic, GeneratingAfterSettle)
    /\ UNCHANGED <<mounted, videos, audioFile, isRendering, status, outputUrl,
                   musicPrompt, masterDuration, outputFormat, urls, heldOutputs,
                   now, render, alert>>

\* generateContent rejected: catch, then finally
MusicRejected ==
    /\ Idle
    /\ musicReq = "pending"
    /\ musicReq' = "rejected"
    /\ musicDescription' = Set(musicDescription, MusicFailed)
    /\ isGeneratingMusic' = Set(isGeneratingMusic, GeneratingAfterSettle)
    /\ UNCHANGED <<mounted, videos, audioFile, isRendering, status, outputUrl,
                   musicPrompt, masterDuration, outputFormat, urls, heldOutputs,
                   now, render, alert>>

\* --------------------------------------------------------------- render
\* The latest handleRenderVideo invocation that passed its guard.
\*   pc        where the async function waits: idle (none yet), metadata,
\*             decode, play, frame, done (returned)
\*   vids, dur, audio   the values its closure captured
\*   i         index of the clip of the for loop (0 before the loop)
\*   srcOk     the URL last assigned to tempVideo.src was not revoked then
\*   elapsed   the loop's elapsed, in ms
\*   recorder  none, recording, stopping (stop() called, event pending), stopped
\*   loaded    URLs assigned to tempVideo.src by the for loop, in order
\*   exits     elapsed at the exit of each finished while loop
\*   error     message seen by the catch block, "unsupported" for the early return
\*   output    object URL created by recorder.onstop, 0 if none
\* A recorder fires its stop event only after stop() was called, so the
\* recorder a failed render leaves recording never calls onstop.
NoRender ==
    [pc |-> "idle", vids |-> <<>>, dur |-> Num(0), audio |-> FALSE, i |-> 0,
     srcOk |-> FALSE, elapsed |-> 0, recorder |-> "none", loaded |-> <<>>,
     exits |-> <<>>, error |-> "", output |-> 0]

\* The async function returned and the recorder is not pending: only the
\* result of the invocation is still observable.
Result(r) ==
    [NoRender EXCEPT !.pc = "done", !.recorder = r.recorder, !.error = r.error,
                     !.output = r.output]

ClipDuration(r) == Mul(r.dur, Num(1000))

\* while (elapsed < clipDuration)
LoopContinues(elapsed, clipDuration) == Lt(Num(elapsed), clipDuration)

\* the button without the isRendering test
RenderButtonNoBusyTest == outputUrl = 0 /\ Len(videos) # 0

\* Render button: shown when outputUrl is null, disabled={isRendering || videos.length === 0}
RenderButtonEnabled == outputUrl = 0 /\ ~isRendering /\ Len(videos) # 0

Unrevoked(u) == urls[u].revoked = 0

\* the invocation is running or waits for its recorder's stop event
Active(r) == r.pc \notin {"idle", "done"} \/ r.recorder = "stopping"

NewRender(supported) ==
    IF supported
    THEN [NoRender EXCEPT !.pc = "metadata", !.vids = videos, !.dur = masterDuration,
                          !.audio = audioFile, !.srcOk = Unrevoked(videos[1].url)]
    ELSE [NoRender EXCEPT !.pc = "done", !.error = "unsupported"]

\* the clip the for loop takes at position k
ClipAt(r, k) == r.vids[k]

\* for-loop body up to await tempVideo.play()
BeginClip(r, k) ==
    [r EXCEPT !.i = k, !.pc = "play", !.elapsed = 0,
              !.srcOk = Unrevoked(ClipAt(r, k).url),
              !.loaded = Append(@, ClipAt(r, k).url)]

\* the end of the function without recorder.stop()
AfterLoopNoStop(r) == [r EXCEPT !.pc = "done"]

\* after the for loop: recorder.stop(); tempVideo.pause(); audioContext.close()
AfterLoop(r) == [r EXCEPT !.pc = "done", !.recorder = "stopping"]

NextClip(r) == IF r.i < Len(r.vids) THEN BeginClip(r, r.i + 1) ELSE AfterLoop(r)

\* recorder.start() and the first pass of the for loop
StartRecording(r) == NextClip([r EXCEPT !.recorder = "recording"])

\* the while test, and one pass of its body up to the requestAnimationFrame await
LoopHead(r, delta) ==
    IF LoopContinues(r.elapsed, ClipDuration(r))
    THEN [r EXCEPT !.elapsed = @ + delta, !.pc = "frame"]
    ELSE NextClip([r EXCEPT !.exits = Append(@, r.elapsed)])

\* the catch block
CatchRender(r, msg) == Result([r EXCEPT !.error = msg])

\* status after a step of the async function that went from r to rr
StatusAfter(r, rr) ==
    IF rr.error # "" THEN StatusRenderError(rr.error)
    ELSE IF rr.pc = "play" /\ rr.i # r.i THEN StatusRendering(ClipAt(rr, rr.i).name)
    ELSE status

\* a catch block without setIsRendering(false)
RenderingAfterNoReset(rr) == isRendering

\* isRendering after such a step: the catch block resets it
RenderingAfter(rr) == IF rr.error # "" THEN FALSE ELSE isRendering

\* a continuation of the render ran and left it as rr
Continue(rr) ==
    /\ render' = rr
    /\ status' = Set(status, StatusAfter(render, rr))
    /\ isRendering' = Set(isRendering, RenderingAfter(rr))
    /\ UNCHANGED <<mounted, videos, audioFile, outputUrl, musicPrompt,
                   musicDescription, isGeneratingMusic, masterDuration, outputFormat,
                   urls, heldOutputs, now, musicReq, alert>>

\* handleRenderVideo up to the first await (or the unsupported-format return)
HandleRenderVideo ==
    /\ Ui
    /\ RenderButtonEnabled
    /\ Len(videos) # 0
    /\ \E supported \in BOOLEAN :
        /\ render' = NewRender(supported)
        /\ isRendering' = supported
        /\ status' = IF supported THEN StatusInitializing
                     ELSE StatusUnsupported(MimeType(outputFormat))
    /\ outputUrl' = 0
    /\ urls' = CommitOutputUrl(urls, 0)
    /\ UNCHANGED <<mounted, videos, audioFile, musicPrompt, musicDescription,
                   isGeneratingMusic, masterDuration, outputFormat, heldOutputs,
                   now, musicReq, alert>>

\* tempVideo.onloadedmetadata, then on to the next await
MetadataLoaded ==
    /\ Idle
    /\ render.pc = "metadata"
    /\ render.srcOk
    /\ \E ctxOk \in BOOLEAN :
        Continue(IF ~ctxOk THEN CatchRender(render, "Could not get canvas context")
                 ELSE IF render.audio THEN [render EXCEPT !.pc = "decode"]
                 ELSE StartRecording(render))

\* tempVideo.onerror
MetadataError ==
    /\ Idle
    /\ render.pc = "metadata"
    /\ Continue(CatchRender(render, "Failed to load video metadata."))

\* audioFile.arrayBuffer() and decodeAudioData resolved
AudioDecoded ==
    /\ Idle
    /\ render.pc = "decode"
    /\ Continue(StartRecording(render))

AudioDecodeFailed ==
    /\ Idle
    /\ render.pc = "decode"
    /\ Continue(CatchRender(render, "decodeAudioData failed"))

\* tempVideo.play() resolved: first test of the while loop
PlayResolved ==
    /\ Idle
    /\ render.pc = "play"
    /\ render.srcOk
    /\ \E delta \in Deltas : Continue(LoopHead(render, delta))

PlayRejected ==
    /\ Idle
    /\ render.pc = "play"
    /\ Continue(CatchRender(render, "play() rejected"))

\* requestAnimationFrame callback: next test of the while loop
AnimationFrame ==
    /\ Idle
    /\ render.pc = "frame"
    /\ \E delta \in Deltas : Continue(LoopHead(render, delta))

\* recorder.onstop
RecorderOnStop ==
    /\ Idle
    /\ render.recorder = "stopping"
    /\ LET new == Len(urls) + 1
           us == Append(urls, [kind |-> "output", revoked |-> 0])
       IN
       /\ render' = Result([render EXCEPT !.recorder = "stopped", !.output = new])
       /\ urls' = CommitOutputUrl(us, new)
       /\ outputUrl' = Set(outputUrl, new)
       /\ heldOutputs' = Set(heldOutputs, heldOutputs \cup {new})
       /\ status' = Set(status, StatusComplete)
       /\ isRendering' = Set(isRendering, FALSE)
    /\ UNCHANGED <<mounted, videos, audioFile, musicPrompt, musicDescription,
                   isGeneratingMusic, masterDuration, outputFormat, now, musicReq,
                   alert>>

\* ------------------------------------------------------ specification
\* The state after the first render of the component.
Init ==
    /\ mounted = TRUE
    /\ videos = <<>>
    /\ audioFile = FALSE
    /\ isRendering = FALSE
    /\ status = StatusReady
    /\ outputUrl = 0
    /\ musicPrompt = InitialMusicPrompt
    /\ musicDescription = ""
    /\ isGeneratingMusic = FALSE
    /\ masterDuration = Num(10)
    /\ outputFormat = "webm"
    /\ urls = <<>>
    /\ heldOutputs = {}
    /\ now = 0
    /\ musicReq = "none"
    /\ render = NoRender
    /\ alert = "none"

Next == HandleVideoUpload \/ HandleAudioUpload \/ HandleRemoveVideo
        \/ HandleClearAllVideos \/ Unmount \/ SetMasterDuration \/ SetMusicPrompt
        \/ SetOutputFormat \/ DismissAlert
        \/ HandleGenerateMusic \/ MusicResolved \/ MusicRejected
        \/ HandleRenderVideo \/ MetadataLoaded \/ MetadataError \/ AudioDecoded
        \/ AudioDecodeFailed \/ PlayResolved \/ PlayRejected \/ AnimationFrame
        \/ RecorderOnStop

Spec == Init /\ [][Next]_vars

\* The music-description request and everything its guard reads.
NextMusic == HandleVideoUpload \/ HandleRemoveVideo \/ HandleClearAllVideos \/ Unmount
             \/ SetMasterDuration \/ SetMusicPrompt \/ DismissAlert
             \/ HandleGenerateMusic \/ MusicResolved \/ MusicRejected
SpecMusic == Init /\ [][NextMusic]_vars

\* The render and everything it reads or that is enabled beside it.
NextRender == HandleVideoUpload \/ HandleAudioUpload \/ HandleRemoveVideo
              \/ HandleClearAllVideos \/ Unmount \/ SetMasterDuration \/ SetOutputFormat
              \/ HandleRenderVideo \/ MetadataLoaded \/ MetadataError \/ AudioDecoded
              \/ AudioDecodeFailed \/ PlayResolved \/ PlayRejected \/ AnimationFrame
              \/ RecorderOnStop
SpecRender == Init /\ [][NextRender]_vars

\* Every callback the render waits on eventually fires, and the clock
\* advances: a frame step that changes the state adds a positive delta.  The
\* render waits on one callback at a time, so one fairness condition on their
\* disjunction is a fairness condition on each of them.
RenderCallback ==
    \/ MetadataLoaded \/ MetadataError
    \/ AudioDecoded \/ AudioDecodeFailed
    \/ PlayResolved \/ PlayRejected
    \/ AnimationFrame
    \/ RecorderOnStop
SpecRenderFair == SpecRender /\ WF_vars(RenderCallback)

\* ------------------------------------------------------------ properties
Failed(r) == r.error # ""
\* a >= b on JavaScript numbers
Ge(a, b) == ~a.nan /\ ~b.nan /\ a.v >= b.v
UnsupportedKind == "Error: Your browser does not support recording."

\* a step in which handleRenderVideo passed its guard
RenderStartStep ==
    \/ render'.pc = "metadata" /\ render.pc # "metadata"
    \/ render' # render /\ render'.error = "unsupported"
    \/ status' # status /\ status'.kind \in {UnsupportedKind, StatusInitializing.kind}

\* a step in which a render failed
RenderFailStep ==
    \/ Failed(render') /\ render' # render
    \/ status' # status /\ status'.kind = UnsupportedKind

\* C1: the render is sequential.  The recorder is started before the first
\* clip is loaded; the loop loads the clips of the list captured at the start
\* in list order, one at a time; a clip's loop has exited with an elapsed time
\* of at least masterDuration seconds before the next clip is loaded; and
\* recorder.stop() is called only after the last clip's loop has exited.
C1_SequentialRender ==
    Active(render) =>
        /\ render.loaded # <<>> => render.recorder # "none"
        /\ Len(render.loaded) <= Len(render.vids)
        /\ \A k \in 1..Len(render.loaded) : render.loaded[k] = render.vids[k].url
        /\ render.pc \in {"play", "frame"} => Len(render.exits) = Len(render.loaded) - 1
        /\ render.pc \notin {"play", "frame"} => Len(render.exits) = Len(render.loaded)
        /\ \A k \in 1..(Len(render.loaded) - 1) :
               /\ k <= Len(render.exits)
               /\ Ge(Num(render.exits[k]), Mul(render.dur, Num(1000)))
        /\ render.recorder = "stopping" =>
               Len(render.loaded) = Len(render.vids) /\ Len(render.exits) = Len(render.vids)

\* The same with the duration captured by the render being a number.
SequentialRenderNumeric == ~render.dur.nan => C1_SequentialRender

\* C2: a failure aborts the whole render.  The failing step leaves
\* isRendering false, an error status and a null outputUrl; a failed render is
\* not running, waits for no recorder and has produced no output; the only
\* thing that happens to it afterwards is that a new render replaces it; and a
\* non-null outputUrl is always the output of a render that did not fail.
C2_FailureAborts ==
    /\ [](Failed(render) =>
            ~Active(render) /\ render.output = 0 /\ render.recorder # "stopped")
    /\ [](outputUrl # 0 => ~Failed(render) /\ render.output = outputUrl)
    /\ [][RenderFailStep /\ mounted =>
            ~isRendering' /\ IsErrorStatus(status') /\ outputUrl' = 0]_vars
    /\ [][Failed(render) /\ render' # render =>
            render'.loaded = <<>> /\ render'.output = 0 /\ RenderStartStep]_vars
C2_Witness ==
    /\ mounted /\ render.error = "play() rejected" /\ render.recorder = "recording"
    /\ ~isRendering /\ outputUrl = 0

\* C3: while the component is mounted, a render in progress eventually ends
\* with isRendering false and either the completion status and an output URL
\* or an error status.
RenderEnded ==
    /\ ~isRendering
    /\ \/ status = StatusComplete /\ outputUrl # 0
       \/ IsErrorStatus(status)
C3_RenderTerminates == (mounted /\ isRendering) ~> (~mounted \/ RenderEnded)
C3_Witness == mounted /\ ~isRendering /\ status = StatusComplete /\ outputUrl # 0

\* C4: while mounted, isGeneratingMusic is true exactly while the request is
\* pending; after a rejected request musicDescription is the failure message;
\* a request starts only with a non-blank prompt and a positive total
\* duration, and the call that is refused changes no state.
BlankPrompt == \A k \in 1..Len(musicPrompt) : IsSpace(musicPrompt[k])
NonPositiveTotal == ~masterDuration.nan /\ Len(videos) * masterDuration.v <= 0
C4_MusicRequest ==
    /\ [](mounted => (isGeneratingMusic <=> musicReq = "pending"))
    /\ [](mounted /\ musicReq = "rejected" => musicDescription = MusicFailed)
    /\ [][musicReq' = "pending" /\ musicReq # "pending" =>
            ~BlankPrompt /\ ~NonPositiveTotal]_vars
    /\ [][alert' = "music" /\ alert = "none" =>
            (BlankPrompt \/ NonPositiveTotal) /\ UNCHANGED <<uiVars, musicReq>>]_vars
    /\ [][(BlankPrompt \/ NonPositiveTotal) /\ musicReq # "pending" =>
            UNCHANGED <<musicReq, isGeneratingMusic, musicDescription>>]_vars
C4_Witness == mounted /\ musicReq = "rejected" /\ ~isGeneratingMusic

\* C5: at most one render is in progress.  A render starts only with a
\* non-empty list, isRendering false, no output URL and no earlier render
\* still running or waiting for its recorder; and whenever isRendering is
\* false no render is running or waiting for its recorder.
C5_SingleRender ==
    /\ [](~isRendering => ~Active(render))
    /\ [][RenderStartStep =>
            Len(videos) # 0 /\ ~isRendering /\ outputUrl = 0 /\ ~Active(render)]_vars
C5_Witness ==
    /\ mounted /\ isRendering /\ render.pc = "frame"
    /\ Len(videos) # 0 /\ outputUrl = 0

\* C6: every video in the list of the mounted component has an un-revoked
\* object URL, every URL an upload created whose video is no longer in the
\* list (or whose component is unmounted) is revoked, and no URL is revoked
\* twice.
InList(u) == \E k \in 1..Len(videos) : videos[k].url = u
C6_VideoUrls ==
    \A u \in DOMAIN urls : urls[u].kind = "video" =>
        /\ urls[u].revoked <= 1
        /\ mounted /\ InList(u) => urls[u].revoked = 0
        /\ ~mounted \/ ~InList(u) => urls[u].revoked = 1

\* Without the release of the removed videos: no list entry is revoked and
\* nothing is revoked twice.
VideoUrlsNotOverRevoked ==
    \A u \in DOMAIN urls : urls[u].kind = "video" =>
        /\ urls[u].revoked <= 1
        /\ mounted /\ InList(u) => urls[u].revoked = 0

\* C7: the output URL held by the mounted component is not revoked, every
\* output URL the component held and no longer holds (or held when it
\* unmounted) is revoked, and at most one output URL is un-revoked.
C7_OutputUrl ==
    /\ mounted /\ outputUrl # 0 => urls[outputUrl].revoked = 0
    /\ \A u \in heldOutputs : u # outputUrl \/ ~mounted => urls[u].revoked = 1
    /\ Cardinality({u \in DOMAIN urls :
                        urls[u].kind = "output" /\ urls[u].revoked = 0}) <= 1
C7_Witness == ~mounted /\ outputUrl # 0 /\ urls[outputUrl].revoked = 1
====
